---- MODULE Spec2Model ----
(***************************************************************************)
(* A model of dezoomify.py: the constructor of ImageUntiler (the jpegtran  *)
(* check and the single-image / batch loop), process_image with its        *)
(* finally clause, the Zoomify pyramid geometry and tile index             *)
(* (UntilerDezoomify.get_properties, get_zoom_levels, get_tile_index,      *)
(* get_tile_url) and the download / join pipeline of                       *)
(* ImageUntiler.untile_image (the ThreadPool.imap download lane and the    *)
(* jplarge joining loop with its KeyboardInterrupt and finally clauses).   *)
(* Spec is the program from the constructor on, a fetch being one step     *)
(* from the request to the result of download; OpenUrlSpec follows one     *)
(* call of open_url through its requests, sleeps and recursive calls;      *)
(* CounterSpec is Spec with the worker threads also interleaved inside     *)
(* `self.num_downloaded += 1`.                                             *)
(***************************************************************************)
EXTENDS Integers, Sequences, FiniteSets, TLC

\* ------------------------------------------------------------------ bounds
\* WIDTH and HEIGHT of ImageProperties.xml range over -NegDim..MaxDim,
\* TILESIZE over -NegDim..MaxTileSize, the -z argument over -MaxReq-1..MaxReq.
MaxDim == 4
MaxTileSize == 2
NegDim == 1
MaxReq == 3
\* get_zoom_levels appends at most MaxLevels levels in the model.
MaxLevels == 5
\* The pipeline is explored for grids of at most MaxTiles tiles.
MaxTiles == 6
\* -t: the number of download threads.
NThreads == 2
\* At most MaxMissing fetches end in HTTPError, at most MaxErrors in URLError.
MaxMissing == 2
MaxErrors == 1
\* The URL list holds 1..MaxImages images.
MaxImages == 2
\* The full ranges above are explored for one image with the default options
\* and a usable jpegtran; every other configuration (a list of images, -s,
\* -x, another jpegtran) is explored for WIDTH, HEIGHT in -NegDim..SmallDim,
\* -z in -SmallReq-1..SmallReq and grids of at most SmallTiles tiles.  A list
\* of images is explored without -s and -x and with a jpegtran that is absent,
\* not executable, or usable.  KeyboardInterrupt is explored for grids of at
\* most SmallTiles tiles.
SmallDim == 2
SmallReq == 1
SmallTiles == 4

VARIABLES
    pc,             \* position of the main thread
    outcome,        \* how process_image ended: "none" while running
    args_zoom,      \* args.zoom_level, the -z argument
    n_images,       \* len(self.image_urls)
    store,          \* self.store
    no_download,    \* self.no_download
    jpegtran,       \* what the jpegtran executable turns out to be
    image,          \* the index (from 1) of the image being processed
    results,        \* how process_image ended for each image so far
    escaped,        \* the exception that left the constructor: "none" if none
    raised,         \* the exception in flight while jplarge is being left
    events,         \* the cleanup calls made for the current image, in order
    dirs,           \* the tile directory of each image: "none"|"exists"|"removed"
    max_width, max_height, tile_size,   \* self.max_width, max_height, tile_size
    loc_width, loc_height, levels,      \* get_zoom_levels: locals and self.levels
    max_zoom, zoom_level,               \* self.max_zoom, self.zoom_level
    width, height, x_tiles, y_tiles,    \* size and tile counts at zoom_level
    tile_dir,       \* self.tile_dir: the image whose directory it names, 0 for None
    scratch,        \* the temporary files of jplarge that exist
    fetch,          \* download lane: state of the fetch of each tile position
    requested,      \* <<col, row, tile_index, tile_group>> of every URL built
    num_downloaded, num_joined,
    loaded,         \* workers inside `self.num_downloaded += 1`: what each read
    emitted,        \* indices handed to the joining loop by downloaded_iterator
    current_col, tile_in_column, active_tmp, active_final,
    tmpimgs, finalimage,                \* the four temporary images
    output,         \* the image written to output_destination
    ops,            \* the jpegtran invocations, in order
    num_missing,    \* the count reported at completion (-1: none reported)
    answers,        \* open_url: the outcome of each opener.open, in order
    retry,          \* open_url: the retry argument of the current call
    sleeps,         \* open_url: the seconds of each time.sleep, in order
    opened          \* open_url: what the outermost call returned or raised

\* The command line and the environment: fixed during a run.
config == <<args_zoom, n_images, no_download, jpegtran>>
\* The constructor's progress through the list of images.
batch == <<image, results, escaped>>
geom == <<max_width, max_height, tile_size, loc_width, loc_height, levels,
          max_zoom, zoom_level, width, height, x_tiles, y_tiles>>
lane == <<fetch, requested, num_downloaded, loaded>>
join == <<num_joined, emitted, current_col, tile_in_column, active_tmp,
          active_final, tmpimgs, finalimage, output, ops, num_missing>>
\* One call of open_url, followed through its recursion.
url == <<answers, retry, sleeps, opened>>
vars == <<pc, outcome, config, store, batch, raised, events, dirs, geom,
          tile_dir, scratch, lane, join, url>>

\* ------------------------------------------------------- Python arithmetic
\* a // b on ints (floor), b # 0.
FloorDiv(a, b) == IF b > 0 THEN a \div b ELSE (-a) \div (-b)
\* int(ceil(a / b)), b # 0.
CeilDiv(a, b) == -FloorDiv(-a, b)
\* int(a / b): truncation toward zero, b # 0.
TruncDiv(a, b) == IF (a >= 0) = (b > 0) THEN FloorDiv(a, b) ELSE CeilDiv(a, b)

RECURSIVE Pow2(_)
Pow2(k) == IF k <= 0 THEN 1 ELSE 2 * Pow2(k - 1)

RECURSIVE Reverse(_)
Reverse(s) == IF s = <<>> THEN <<>> ELSE Append(Reverse(Tail(s)), Head(s))

\* ------------------------------------------------------------ geometry
\* Mutant of TilesAcross: the quotient rounded down and one added.
TilesAcrossFloorPlusOne(pixels, ts) == FloorDiv(pixels, ts) + 1

\* get_zoom_levels, lines 652-653: int(ceil(loc / float(self.tile_size))).
TilesAcross(pixels, ts) == CeilDiv(pixels, ts)

\* get_zoom_levels, lines 659-660: int(loc / 2.).
Halve(pixels) == TruncDiv(pixels, 2)

\* get_zoom_levels, lines 656-657: the loop's exit test.
IsSmallestLevel(wt, ht) == wt = 1 /\ ht = 1

\* Mutant of ResolveZoom: the maximum zoom level itself is refused.
ResolveZoomBelowMax(r, mz) ==
    IF 0 <= r /\ r < mz THEN [ok |-> TRUE, level |-> r]
    ELSE IF -mz - 1 <= r /\ r <= -1 THEN [ok |-> TRUE, level |-> mz + r + 1]
    ELSE [ok |-> FALSE, level |-> r]

\* get_properties, lines 617-626: the level the request r selects when the
\* maximum zoom level is mz; ok is FALSE where the code raises ZoomLevelError.
ResolveZoom(r, mz) ==
    IF 0 <= r /\ r <= mz THEN [ok |-> TRUE, level |-> r]
    ELSE IF -mz - 1 <= r /\ r <= -1 THEN [ok |-> TRUE, level |-> mz + r + 1]
    ELSE [ok |-> FALSE, level |-> r]

\* get_properties, lines 629-630: int(self.max_width / 2 ** (max_zoom - level)).
SizeAtLevel(pixels, mz, level) == TruncDiv(pixels, Pow2(mz - level))

\* get_tile_index, lines 678 and 681-682: the tiles across at level i as that
\* method derives them from pixels, the value of self.width or self.height:
\* int(ceil(floor(pixels / pow(2, max_zoom - i)) / tile_size)).
IndexTilesAcross(pixels, i) ==
    CeilDiv(FloorDiv(pixels, Pow2(max_zoom - i)), tile_size)

RECURSIVE LowerLevelsTiles(_, _, _)
\* get_tile_index, lines 680-682: the tiles of the levels below `level`, with
\* w and h the values of self.width and self.height.
LowerLevelsTiles(w, h, level) ==
    IF level <= 0 THEN 0
    ELSE LowerLevelsTiles(w, h, level - 1)
         + IndexTilesAcross(w, level - 1) * IndexTilesAcross(h, level - 1)

\* get_tile_index, lines 678-684, with w and h the values of self.width and
\* self.height.
TileIndexWith(w, h, level, x, y) ==
    x + y * IndexTilesAcross(w, level) + LowerLevelsTiles(w, h, level)

\* get_tile_index, lines 666-684: self.width and self.height are the size at
\* the selected zoom level (get_properties, lines 629-630).
get_tile_index(level, x, y) == TileIndexWith(width, height, level, x, y)

\* get_tile_url, lines 690-691: the tile group of the URL.
TileGroup(tile_index) == FloorDiv(tile_index, tile_size)

\* ---------------------------------------------------------------- images
\* A temporary file as NamedTemporaryFile leaves it (lines 337-339): empty.
EmptyFile == [w |-> 0, h |-> 0, tiles |-> {}]
IsImage(f) == f.w > 0 /\ f.h > 0

\* A downloaded tile, local_tile_path(col, row): tile (col, row) at offset (0, 0).
TileImage(col, row) ==
    [w |-> tile_size, h |-> tile_size, tiles |-> {<<col, row, 0, 0>>}]

\* jpegtran -crop WxH+0+0 -outfile dst src: what dst holds afterwards (old when
\* jpegtran rejects its input or the size and writes nothing).
Crop(old, src, w, h) ==
    IF IsImage(src) /\ w > 0 /\ h > 0
    THEN [w |-> w, h |-> h, tiles |-> src.tiles]
    ELSE old

\* jpegtran -drop +x+y patch -outfile dst base: what dst holds afterwards (old
\* when jpegtran rejects an input or the -drop switch and writes nothing).
Drop(old, base, patch, x, y) ==
    IF jpegtran # "no_drop" /\ IsImage(base) /\ IsImage(patch)
    THEN [base EXCEPT !.tiles = base.tiles \cup
              {<<t[1], t[2], t[3] + x, t[4] + y>> : t \in patch.tiles}]
    ELSE old

\* ------------------------------------------------------------ constructor
\* What the jpegtran executable can turn out to be (lines 167-202): not found,
\* without execute permission, not startable, lacking -drop, or usable.
JpegtranKinds == {"absent", "not_executable", "unstartable", "no_drop", "ok"}

\* One image, default options, usable jpegtran: explored with the full ranges.
Detailed == n_images = 1 /\ ~store /\ ~no_download /\ jpegtran = "ok"
DimBound == IF Detailed THEN MaxDim ELSE SmallDim
ReqBound == IF Detailed THEN MaxReq ELSE SmallReq
TilesBound == IF Detailed THEN MaxTiles ELSE SmallTiles

\* open_url, line 88: the default of the retry argument; every caller uses it.
DefaultRetry == 5

\* Nothing has run yet: no image is being processed, no request was made.
Fresh ==
    /\ outcome = "none"
    /\ image = 0 /\ results = <<>> /\ escaped = "none"
    /\ raised = "none" /\ events = <<>>
    /\ dirs = [i \in 1..n_images |-> "none"]
    /\ max_width = 0 /\ max_height = 0 /\ tile_size = 0
    /\ loc_width = 0 /\ loc_height = 0 /\ levels = <<>>
    /\ max_zoom = 0 /\ zoom_level = args_zoom
    /\ width = 0 /\ height = 0 /\ x_tiles = 0 /\ y_tiles = 0
    /\ tile_dir = 0
    /\ scratch = {}
    /\ fetch = <<>> /\ requested = {} /\ num_downloaded = 0
    /\ loaded = <<>>
    /\ num_joined = 0 /\ emitted = <<>>
    /\ current_col = 0 /\ tile_in_column = 0
    /\ active_tmp = 0 /\ active_final = 0
    /\ tmpimgs = <<EmptyFile, EmptyFile>>
    /\ finalimage = <<EmptyFile, EmptyFile>>
    /\ output = EmptyFile
    /\ ops = <<>>
    /\ num_missing = -1
    /\ answers = <<>> /\ retry = DefaultRetry
    /\ sleeps = <<>> /\ opened = "none"

Init ==
    /\ pc = "init"
    /\ n_images \in 1..MaxImages
    /\ store \in BOOLEAN
    /\ no_download \in BOOLEAN
    /\ jpegtran \in JpegtranKinds
    /\ n_images > 1 => /\ ~store /\ ~no_download
                        /\ jpegtran \in {"absent", "not_executable", "ok"}
    /\ args_zoom \in (-ReqBound - 1)..ReqBound
    /\ Fresh

\* __init__, lines 167-202: the jpegtran kinds for which the constructor
\* raises JpegtranException.  The exception raised at line 200 for a missing
\* -drop, like an error of Popen at line 193, is caught by the except clause of
\* lines 201-202, which logs it and goes on.
JpegtranCheckRaises(kind) == kind \in {"absent", "not_executable"}

\* __init__, lines 139-210 and 212-218: the options are stored, jpegtran is
\* checked and process_image is called for the first image.
Construct ==
    /\ pc = "init"
    /\ store' = (store \/ no_download)
    /\ IF JpegtranCheckRaises(jpegtran)
       THEN /\ pc' = "done"
            /\ outcome' = "JpegtranException"
            /\ escaped' = "JpegtranException"
            /\ UNCHANGED image
       ELSE /\ pc' = "process_image"
            /\ image' = 1
            /\ UNCHANGED <<outcome, escaped>>
    /\ UNCHANGED <<config, results, raised, events, dirs, geom, tile_dir,
                   scratch, lane, join, url>>

\* ---------------------------------------------------------- process_image
\* Mutant of BatchContinues: only the exceptions of line 221 are caught.
BatchContinuesListed(exc) ==
    exc \in {"none", "FileNotFoundError", "JpegtranException", "ZoomLevelError"}

\* __init__, lines 217-222: the loop over a list goes on after process_image
\* has ended with exc ("none": it returned): `except Exception` catches
\* every exception but KeyboardInterrupt.
BatchContinues(exc) == exc # "KeyboardInterrupt"

\* __init__, lines 207-222: process_image has ended with exc.  With one image
\* the exception leaves the constructor; in the loop over a list it does so
\* only if the loop does not catch it.

ProcessImageReturn(exc) ==
    /\ outcome' = (IF exc = "none" THEN "ok" ELSE exc)
    /\ results' = Append(results, IF exc = "none" THEN "ok" ELSE exc)
    /\ IF n_images = 1
       THEN pc' = "done" /\ escaped' = exc
       ELSE IF ~BatchContinues(exc)
       THEN pc' = "done" /\ escaped' = exc
       ELSE /\ pc' = (IF image < n_images THEN "next_image" ELSE "done")
            /\ UNCHANGED escaped

\* Pool workers of this image can still create files in the tile directory:
\* the pool (line 318) is never closed or terminated.
WorkersActive == \E i \in DOMAIN fetch : fetch[i] \in {"queued", "running"}

\* process_image, lines 245-247: what shutil.rmtree(self.tile_dir) does.  It
\* is not called with -s / -x or while self.tile_dir is None ("skipped"); it
\* raises FileNotFoundError when the directory is gone ("missing"); it removes
\* the directory ("removed"); and while workers still write tiles into the
\* directory it either removes it or fails with OSError on a file created
\* behind its back ("failed").
RmTreeOutcomes ==
    IF store \/ tile_dir = 0 THEN {"skipped"}
    ELSE IF dirs[tile_dir] # "exists" THEN {"missing"}
    ELSE IF WorkersActive THEN {"removed", "failed"}
    ELSE {"removed"}

\* process_image, lines 235-247: the try block is left with exc ("none": it
\* ended normally); the finally clause runs, and an exception it raises
\* replaces exc.
LeaveProcessImage(exc) ==
    \E o \in RmTreeOutcomes :
        /\ dirs' = IF o = "removed" THEN [dirs EXCEPT ![tile_dir] = "removed"]
                   ELSE dirs
        /\ events' = IF o = "skipped" THEN events
                     ELSE IF o = "removed" THEN Append(events, "rmtree")
                     ELSE Append(events, "rmtree_raised")
        /\ ProcessImageReturn(IF o = "missing" THEN "FileNotFoundError"
                              ELSE IF o = "failed" THEN "OSError"
                              ELSE exc)

\* process_image, line 228: get_base_directory raises FileNotFoundError,
\* before the try block is entered.
BaseDirNotFound ==
    /\ pc = "process_image"
    /\ ProcessImageReturn("FileNotFoundError")
    /\ UNCHANGED <<config, store, image, raised, events, dirs, geom, tile_dir,
                   scratch, lane, join, url>>

\* get_properties, lines 594-602: ImageProperties.xml cannot be opened.
PropertiesNotFound ==
    /\ pc = "process_image"
    /\ LeaveProcessImage("FileNotFoundError")
    /\ UNCHANGED <<config, store, image, raised, geom, tile_dir, scratch,
                   lane, join, url>>

\* process_image up to get_properties line 608 and get_zoom_levels lines
\* 648-650: the properties document is read and the halving loop is entered.
ReadProperties ==
    /\ pc = "process_image"
    /\ \E w \in (-NegDim)..DimBound, h \in (-NegDim)..DimBound,
          ts \in (-NegDim)..MaxTileSize :
          /\ max_width' = w /\ max_height' = h /\ tile_size' = ts
          /\ loc_width' = w /\ loc_height' = h
    /\ levels' = <<>>
    /\ pc' = "get_zoom_levels"
    /\ UNCHANGED <<outcome, config, store, batch, raised, events, dirs,
                   max_zoom, zoom_level, width, height, x_tiles, y_tiles,
                   tile_dir, scratch, lane, join, url>>

\* One iteration of the loop of get_zoom_levels, lines 651-660, and, when the
\* loop exits, lines 663 and 613.  A TILESIZE of 0 raises ZeroDivisionError at
\* line 652, which leaves process_image through its finally clause.
GetZoomLevels ==
    /\ pc = "get_zoom_levels"
    /\ Len(levels) < MaxLevels
    /\ IF tile_size = 0
       THEN /\ LeaveProcessImage("ZeroDivisionError")
            /\ UNCHANGED <<loc_width, loc_height, levels, max_zoom>>
       ELSE LET wt == TilesAcross(loc_width, tile_size)
                ht == TilesAcross(loc_height, tile_size)
                appended == Append(levels, <<wt, ht>>)
            IN  IF IsSmallestLevel(wt, ht)
                THEN /\ levels' = Reverse(appended)
                     /\ max_zoom' = Len(appended) - 1
                     /\ pc' = "select_zoom"
                     /\ UNCHANGED <<loc_width, loc_height, outcome, results,
                                    escaped, events, dirs>>
                ELSE /\ levels' = appended
                     /\ loc_width' = Halve(loc_width)
                     /\ loc_height' = Halve(loc_height)
                     /\ UNCHANGED <<pc, outcome, max_zoom, results, escaped,
                                    events, dirs>>
    /\ UNCHANGED <<config, store, image, raised, max_width, max_height,
                   tile_size, zoom_level, width, height, x_tiles, y_tiles,
                   tile_dir, scratch, lane, join, url>>

\* get_properties, lines 615-634: the zoom level is resolved (ZoomLevelError
\* leaves process_image) and the size and tile counts at that level are set.
SelectZoom ==
    /\ pc = "select_zoom"
    /\ LET r == ResolveZoom(zoom_level, max_zoom)
       IN  IF r.ok
           THEN /\ zoom_level' = r.level
                /\ width' = SizeAtLevel(max_width, max_zoom, r.level)
                /\ height' = SizeAtLevel(max_height, max_zoom, r.level)
                /\ x_tiles' = levels[r.level + 1][1]
                /\ y_tiles' = levels[r.level + 1][2]
                /\ pc' = "untile_image"
                /\ UNCHANGED <<outcome, results, escaped, events, dirs>>
           ELSE /\ LeaveProcessImage("ZoomLevelError")
                /\ UNCHANGED <<zoom_level, width, height, x_tiles, y_tiles>>
    /\ UNCHANGED <<config, store, image, raised, max_width, max_height,
                   tile_size, loc_width, loc_height, levels, max_zoom,
                   tile_dir, scratch, lane, join, url>>

\* ----------------------------------------------------------------- open_url
\* What opener.open does with one request: it returns a response ("ok"),
\* raises urllib.error.HTTPError (the server answered with an error status,
\* 404 for a tile that does not exist) or raises another
\* urllib.error.URLError (no answer: refused, unreachable, timed out).
Answers == {"ok", "HTTPError", "URLError"}

\* open_url, line 117: `except urllib.error.URLError`; urllib.error.HTTPError
\* is a subclass of urllib.error.URLError.
CaughtByOpenUrl(answer) == answer \in {"HTTPError", "URLError"}

BackoffFromTwo(r) == Pow2((5 - r) + 1)

\* open_url, line 120: the seconds slept before the next request.
Backoff(r) == Pow2(5 - r)

\* open_url, lines 115-118: one opener.open; its response is returned, its
\* exception is raised again when retry is 0, and slept on otherwise.
OpenUrlTry ==
    /\ pc = "open_url"
    /\ \E answer \in Answers :
          /\ answers' = Append(answers, answer)
          /\ IF ~CaughtByOpenUrl(answer)
             THEN pc' = "opened" /\ opened' = answer
             ELSE IF retry = 0
                  THEN pc' = "opened" /\ opened' = answer
                  ELSE pc' = "sleep" /\ UNCHANGED opened
    /\ UNCHANGED <<outcome, config, store, batch, raised, events, dirs,
                   geom, tile_dir, scratch, lane, join, retry, sleeps>>

\* open_url, lines 120-121: time.sleep, then the recursive call.
OpenUrlSleep ==
    /\ pc = "sleep"
    /\ sleeps' = Append(sleeps, Backoff(retry))
    /\ retry' = retry - 1
    /\ pc' = "open_url"
    /\ UNCHANGED <<outcome, config, store, batch, raised, events, dirs,
                   geom, tile_dir, scratch, lane, join, answers, opened>>

\* download, lines 303-313: what the worker makes of the end of open_url
\* (through download_url): the tile, (None, None) for an HTTPError, and any
\* other exception leaves download.
DownloadResult(end) ==
    CASE end = "ok" -> "ok"
      [] end = "HTTPError" -> "http_error"
      [] end = "URLError" -> "url_error"

\* ------------------------------------------------------------- pipeline
\* untile_image, line 255.
num_tiles == x_tiles * y_tiles

\* untile_image, line 316: the i-th (from 1) element of
\* itertools.product(range(self.x_tiles), range(self.y_tiles)).
TilePosition(i) == <<(i - 1) \div y_tiles, (i - 1) % y_tiles>>

\* The result for position i can be yielded: its fetch has ended, or (line
\* 321) the iterator is the tile positions themselves ("local").
Resolved(i) == fetch[i] \in {"ok", "http_error", "url_error", "local"}
CountFetch(status) == Cardinality({i \in DOMAIN fetch : fetch[i] = status})

\* ThreadPool (line 318): the tasks are taken from the pool's queue in the
\* order imap put them there, by at most nthreads workers at a time.
NextTask ==
    {i \in DOMAIN fetch :
        /\ fetch[i] = "queued"
        /\ \A j \in 1..(i - 1) : fetch[j] # "queued"
        /\ CountFetch("running") < NThreads}

\* Mutant of ReadyToEmit: imap_unordered, the results as they complete.
ReadyToEmitUnordered ==
    {i \in DOMAIN fetch :
        Resolved(i) /\ \A k \in 1..Len(emitted) : emitted[k] # i}

\* pool.imap (line 319) and the for loop of line 351: the iterator yields the
\* results in the order of the tile positions, each once its fetch has ended.
ReadyToEmit == {i \in DOMAIN fetch : i = Len(emitted) + 1 /\ Resolved(i)}

\* (active + 1) % 2, lines 388, 408-409, 417, 422-423, 427, 434.
Other(active) == (active + 1) % 2

\* jplarge, lines 364-376: the width the column image is created with.
ColumnWidthAfterLast(col) ==
    IF col = x_tiles THEN width - ((x_tiles - 1) * tile_size) ELSE tile_size

ColumnWidth(col) ==
    IF col = x_tiles - 1 THEN width - ((x_tiles - 1) * tile_size) ELSE tile_size

\* jplarge, line 386: the vertical offset a tile is dropped at.
DropOffsetY(row) == row * tile_size

\* Mutant of PromoteOffsetX: the offset of the column before.
PromoteOffsetXPrevious(col) == (col - 1) * tile_size

\* jplarge, line 415: the horizontal offset a column is dropped at.
PromoteOffsetX(col) == col * tile_size

\* jplarge, lines 397 and 411: the column is complete.
ColumnComplete(in_column) == in_column = y_tiles - 1

SlotName(role, active) ==
    IF role = "tmp" THEN (IF active = 0 THEN "tmp0" ELSE "tmp1")
    ELSE (IF active = 0 THEN "final0" ELSE "final1")

Invocation(kind, col, row, w, h, x, y, src, base, dst) ==
    [kind |-> kind, col |-> col, row |-> row, w |-> w, h |-> h, x |-> x,
     y |-> y, src |-> src, base |-> base, dst |-> dst]

\* jplarge, lines 332-340: the four temporary files.
ScratchFiles == {"tmp0", "tmp1", "final0", "final1"}

\* process_image line 240 (setup_tile_directory, lines 515-521), untile_image
\* lines 255-257 and 316-322 (the pool and its imap iterator, or with -x the
\* tile positions themselves), jplarge lines 332-350.
UntileImage ==
    /\ pc = "untile_image"
    /\ num_tiles <= TilesBound
    /\ tile_dir' = image
    /\ dirs' = [dirs EXCEPT ![image] = "exists"]
    /\ scratch' = ScratchFiles
    /\ fetch' = [i \in 1..num_tiles |-> IF no_download THEN "local" ELSE "queued"]
    /\ requested' = {}
    /\ num_downloaded' = (IF no_download THEN num_tiles ELSE 0)
    /\ loaded' = <<>>
    /\ num_joined' = 0
    /\ emitted' = <<>>
    /\ current_col' = 0 /\ tile_in_column' = 0
    /\ active_tmp' = 0 /\ active_final' = 0
    /\ tmpimgs' = <<EmptyFile, EmptyFile>>
    /\ finalimage' = <<EmptyFile, EmptyFile>>
    /\ pc' = "jplarge"
    /\ UNCHANGED <<outcome, config, store, batch, raised, events, geom,
                   output, ops, num_missing, url>>

\* The pool's worker threads run while the main thread is in the joining loop
\* and while it leaves it: nothing stops them before the process exits.
WorkersRun == pc \in {"jplarge", "process_image_finally"}

\* download, lines 297-304: a pool worker takes the next tile position, builds
\* its URL (get_tile_url) and starts the fetch.
StartFetch ==
    /\ WorkersRun
    /\ \E i \in NextTask :
          LET col == TilePosition(i)[1]
              row == TilePosition(i)[2]
              tile_index == get_tile_index(zoom_level, col, row)
          IN  /\ fetch' = [fetch EXCEPT ![i] = "running"]
              /\ requested' = requested \cup
                     {<<col, row, tile_index, TileGroup(tile_index)>>}
    /\ UNCHANGED <<pc, outcome, config, store, batch, raised, events, dirs,
                   geom, tile_dir, scratch, num_downloaded, loaded, join,
                   url>>

\* The workers that have read self.num_downloaded and not yet stored it.
Counting == DOMAIN loaded

\* download, lines 304-306 and 312: download_url has ended, with the tile or
\* with an HTTPError, and the worker has evaluated self.num_downloaded + 1
\* but not stored it yet. `self.num_downloaded += 1` is a read followed by a
\* write and no lock is held: other threads run between the two.
LoadCounter ==
    /\ WorkersRun
    /\ \E i \in DOMAIN fetch \ Counting :
          /\ fetch[i] = "running"
          /\ loaded' = (i :> num_downloaded) @@ loaded
    /\ UNCHANGED <<pc, outcome, config, store, batch, raised, events, dirs,
                   geom, tile_dir, scratch, fetch, requested, num_downloaded,
                   join, url>>

\* download, lines 306-313: the worker stores the sum, of the value it read
\* before other workers ran or of the value it reads now, and returns
\* tile_position, or (None, None) when download_url had raised HTTPError; an
\* exception of download_url other than HTTPError leaves download without
\* touching the counter.
FinishFetch ==
    /\ WorkersRun
    /\ \E i \in DOMAIN fetch :
          /\ fetch[i] = "running"
          /\ \/ /\ \E end \in {"ok", "HTTPError"} :
                      /\ end = "HTTPError" =>
                             CountFetch("http_error") < MaxMissing
                      /\ fetch' = [fetch EXCEPT ![i] = DownloadResult(end)]
                /\ num_downloaded' =
                       (IF i \in Counting THEN loaded[i] ELSE num_downloaded)
                           + 1
                /\ loaded' = [j \in Counting \ {i} |-> loaded[j]]
             \/ /\ i \notin Counting
                /\ CountFetch("url_error") < MaxErrors
                /\ fetch' = [fetch EXCEPT ![i] = DownloadResult("URLError")]
                /\ UNCHANGED <<num_downloaded, loaded>>
    /\ UNCHANGED <<pc, outcome, config, store, batch, raised, events, dirs,
                   geom, tile_dir, scratch, requested, join, url>>

\* jplarge, lines 356-427: the body of the joining loop for a downloaded tile.
JoinTile(col, row) ==
    IF col = current_col
    THEN LET dst == active_tmp + 1
             tmp1 == IF tile_in_column = 0
                     THEN [tmpimgs EXCEPT ![dst] =
                              Crop(@, TileImage(col, row),
                                   ColumnWidth(current_col), height)]
                     ELSE [tmpimgs EXCEPT ![dst] =
                              Drop(@, tmpimgs[Other(active_tmp) + 1],
                                   TileImage(col, row), 0, DropOffsetY(row))]
             op1 == IF tile_in_column = 0
                    THEN Invocation("column_crop", col, row,
                                    ColumnWidth(current_col), height, 0, 0,
                                    "tile", "", SlotName("tmp", active_tmp))
                    ELSE Invocation("column_drop", col, row, 0, 0,
                                    0, DropOffsetY(row), "tile",
                                    SlotName("tmp", Other(active_tmp)),
                                    SlotName("tmp", active_tmp))
             fin == active_final + 1
         IN  /\ tmpimgs' = tmp1
             /\ num_joined' = num_joined + 1
             /\ IF ColumnComplete(tile_in_column) /\ current_col = 0
                THEN /\ finalimage' = [finalimage EXCEPT ![fin] =
                            Crop(@, tmp1[dst], width, height)]
                     /\ ops' = ops \o <<op1,
                            Invocation("final_crop", current_col, row,
                                       width, height, 0, 0,
                                       SlotName("tmp", active_tmp), "",
                                       SlotName("final", active_final))>>
                     /\ current_col' = current_col + 1
                     /\ tile_in_column' = 0
                     /\ active_final' = Other(active_final)
                     /\ active_tmp' = Other(active_tmp)
                ELSE IF ColumnComplete(tile_in_column)
                THEN /\ finalimage' = [finalimage EXCEPT ![fin] =
                            Drop(@, finalimage[Other(active_final) + 1],
                                 tmp1[dst], PromoteOffsetX(current_col), 0)]
                     /\ ops' = ops \o <<op1,
                            Invocation("final_drop", current_col, row, 0, 0,
                                       PromoteOffsetX(current_col), 0,
                                       SlotName("tmp", active_tmp),
                                       SlotName("final", Other(active_final)),
                                       SlotName("final", active_final))>>
                     /\ current_col' = current_col + 1
                     /\ tile_in_column' = 0
                     /\ active_final' = Other(active_final)
                     /\ active_tmp' = Other(active_tmp)
                ELSE /\ ops' = Append(ops, op1)
                     /\ tile_in_column' = tile_in_column + 1
                     /\ active_tmp' = Other(active_tmp)
                     /\ UNCHANGED <<finalimage, current_col, active_final>>
    ELSE UNCHANGED <<tmpimgs, num_joined, finalimage, ops, current_col,
                     tile_in_column, active_final, active_tmp>>

\* Mutant of UnlinkAll: only the column images are deleted.
UnlinkColumnImages(files) == files \ {"tmp0", "tmp1"}

\* jplarge, lines 455-459: the finally clause deletes the temporary images.
UnlinkAll(files) == files \ ScratchFiles

\* jplarge, lines 450-459: jplarge is left with exc in flight ("none": the try
\* block ended normally).  The except clause has killed the jpegtran
\* subprocess if it was running; the finally clause deletes the temporary
\* images; the finally clause of process_image is next.
JplargeExit(exc, killed) ==
    /\ scratch' = UnlinkAll(scratch)
    /\ events' = events \o (IF killed THEN <<"kill">> ELSE <<>>) \o <<"unlink">>
    /\ raised' = exc
    /\ pc' = "process_image_finally"

\* download, line 311: (None, None), the result for a tile the server does
\* not have.
NonePosition == <<-1, -1>>

\* Mutant of IteratorRaises: download catches nothing.
IteratorRaisesHTTPError(status) == status \in {"url_error", "http_error"}

\* download, lines 304-306, and pool.imap: download catches HTTPError only;
\* any other error of download_url is raised by the iterator when the joining
\* loop asks for that result.
IteratorRaises(status) == status = "url_error"

\* download, lines 311 and 313, and line 321: what the iterator yields for
\* position i.
Yielded(i) == IF fetch[i] = "http_error" THEN NonePosition ELSE TilePosition(i)

\* jplarge, lines 351-427: one iteration of the joining loop.  A result of
\* (None, None) is skipped (lines 352-354); an error raised by the iterator,
\* or by Popen when jpegtran cannot be started, leaves jplarge.
JoinNext ==
    /\ pc = "jplarge"
    /\ \E i \in ReadyToEmit :
          /\ emitted' = Append(emitted, i)
          /\ IF IteratorRaises(fetch[i])
             THEN /\ JplargeExit("URLError", FALSE)
                  /\ UNCHANGED <<tmpimgs, num_joined, finalimage, ops,
                                 current_col, tile_in_column, active_final,
                                 active_tmp>>
             ELSE IF /\ Yielded(i) # NonePosition
                     /\ jpegtran = "unstartable"
                     /\ Yielded(i)[1] = current_col
             THEN /\ JplargeExit("OSError", FALSE)
                  /\ UNCHANGED <<tmpimgs, num_joined, finalimage, ops,
                                 current_col, tile_in_column, active_final,
                                 active_tmp>>
             ELSE /\ IF Yielded(i) = NonePosition
                     THEN UNCHANGED <<tmpimgs, num_joined, finalimage, ops,
                                      current_col, tile_in_column,
                                      active_final, active_tmp>>
                     ELSE JoinTile(Yielded(i)[1], Yielded(i)[2])
                  /\ UNCHANGED <<pc, raised, events, scratch>>
    /\ UNCHANGED <<outcome, config, store, batch, dirs, geom, tile_dir, lane,
                   output, num_missing, url>>

\* jplarge, lines 429-459, once the iterator is exhausted: the optimize pass,
\* the missing-tile report and the removal of the temporary files.
JoinFinish ==
    /\ pc = "jplarge"
    /\ Len(emitted) = num_tiles
    /\ IF jpegtran = "unstartable"
       THEN /\ JplargeExit("OSError", FALSE)
            /\ UNCHANGED <<output, ops, num_missing>>
       ELSE /\ LET src == finalimage[Other(active_final) + 1]
               IN  /\ output' = IF IsImage(src) THEN src ELSE output
                   /\ ops' = Append(ops,
                          Invocation("optimize", current_col, 0, 0, 0, 0, 0,
                                     SlotName("final", Other(active_final)),
                                     "", "out"))
            /\ num_missing' = num_tiles - num_joined
            /\ JplargeExit("none", FALSE)
    /\ UNCHANGED <<outcome, config, store, batch, dirs, geom, tile_dir, lane,
                   num_joined, emitted, current_col, tile_in_column,
                   active_tmp, active_final, tmpimgs, finalimage, url>>

\* jplarge, lines 372-427 and 430-436: a jpegtran subprocess can be running,
\* the main thread waiting for it in subproc.wait().
InvocationInFlight ==
    /\ jpegtran # "unstartable"
    /\ \/ \E i \in ReadyToEmit : /\ fetch[i] \in {"ok", "local"}
                                 /\ TilePosition(i)[1] = current_col
       \/ Len(emitted) = num_tiles

\* jplarge, lines 450-459: KeyboardInterrupt reaches the main thread in the
\* try block, while it waits for the iterator or (waiting) for a jpegtran
\* subprocess, which the except clause then kills (lines 452-453).  The
\* interrupted iteration leaves nothing behind but the temporary images.
Interrupt ==
    /\ pc = "jplarge"
    /\ num_tiles <= SmallTiles
    /\ \E waiting \in BOOLEAN :
          /\ waiting => InvocationInFlight
          /\ JplargeExit("KeyboardInterrupt", waiting)
    /\ UNCHANGED <<outcome, config, store, batch, dirs, geom, tile_dir, lane,
                   join, url>>

\* process_image, lines 245-247, after untile_image: the finally clause.
ProcessImageFinally ==
    /\ pc = "process_image_finally"
    /\ LeaveProcessImage(raised)
    /\ UNCHANGED <<config, store, image, raised, geom, tile_dir, scratch,
                   lane, join, url>>

\* Mutant of LoopZoomLevel: self.zoom_level as the image before left it.
LoopZoomLevelKept == zoom_level

\* __init__, lines 212 and 214: the zoom level every iteration of the loop
\* starts from.
LoopZoomLevel == args_zoom

\* __init__, lines 213-218: the next iteration of the loop over the images.
\* self.tile_dir keeps its value.  The attributes process_image sets before
\* it reads them, the locals of jplarge and the records of the previous
\* image (events, requested, ops, output) start afresh; the workers of the
\* previous image's pool are not followed further.
NextImage ==
    /\ pc = "next_image"
    /\ image' = image + 1
    /\ zoom_level' = LoopZoomLevel
    /\ pc' = "process_image"
    /\ outcome' = "none"
    /\ raised' = "none" /\ events' = <<>>
    /\ max_width' = 0 /\ max_height' = 0 /\ tile_size' = 0
    /\ loc_width' = 0 /\ loc_height' = 0 /\ levels' = <<>>
    /\ max_zoom' = 0
    /\ width' = 0 /\ height' = 0 /\ x_tiles' = 0 /\ y_tiles' = 0
    /\ fetch' = <<>> /\ requested' = {} /\ num_downloaded' = 0
    /\ loaded' = <<>>
    /\ num_joined' = 0 /\ emitted' = <<>>
    /\ current_col' = 0 /\ tile_in_column' = 0
    /\ active_tmp' = 0 /\ active_final' = 0
    /\ tmpimgs' = <<EmptyFile, EmptyFile>>
    /\ finalimage' = <<EmptyFile, EmptyFile>>
    /\ output' = EmptyFile
    /\ ops' = <<>>
    /\ num_missing' = -1
    /\ UNCHANGED <<config, store, results, escaped, dirs, tile_dir, scratch,
                   url>>


\* One call open_url(url) as download_url makes it.
OpenUrlInit ==
    /\ pc = "open_url"
    /\ n_images = 1 /\ store = FALSE /\ no_download = FALSE
    /\ jpegtran = "ok"
    /\ args_zoom = -1
    /\ Fresh

OpenUrlNext ==
    \/ OpenUrlTry
    \/ OpenUrlSleep

OpenUrlSpec == OpenUrlInit /\ [][OpenUrlNext]_vars

Next ==
    \/ Construct
    \/ BaseDirNotFound
    \/ PropertiesNotFound
    \/ ReadProperties
    \/ GetZoomLevels
    \/ SelectZoom
    \/ UntileImage
    \/ StartFetch
    \/ FinishFetch
    \/ JoinNext
    \/ JoinFinish
    \/ Interrupt
    \/ ProcessImageFinally
    \/ NextImage

\* The program with every `self.num_downloaded += 1` taken as one step.
Spec == Init /\ [][Next]_vars

\* The program with the threads also interleaved between the read and the
\* write of `self.num_downloaded += 1`.
CounterNext ==
    \/ Next
    \/ LoadCounter

CounterSpec == Init /\ [][CounterNext]_vars

Exceptions ==
    {"none", "FileNotFoundError", "ZeroDivisionError", "ZoomLevelError",
     "URLError", "OSError", "KeyboardInterrupt", "JpegtranException"}

TypeOK ==
    /\ pc \in {"init", "process_image", "get_zoom_levels", "select_zoom",
               "untile_image", "jplarge", "process_image_finally",
               "next_image", "done"}
    /\ outcome \in (Exceptions \ {"none"}) \cup {"none", "ok"}
    /\ escaped \in Exceptions /\ raised \in Exceptions
    /\ image \in 0..n_images /\ Len(results) <= n_images
    /\ tile_dir \in 0..n_images
    /\ scratch \subseteq ScratchFiles
    /\ Len(levels) <= MaxLevels
    /\ active_tmp \in {0, 1} /\ active_final \in {0, 1}

\* ================================================================ claims
\* The geometry the specification speaks of: WIDTH, HEIGHT and TILESIZE
\* positive, and its own definitions of the per-level sizes and tile index.
Positive == max_width > 0 /\ max_height > 0 /\ tile_size > 0
RefCeil(a, b) == (a + b - 1) \div b
RefWidthAt(L) == max_width \div Pow2(max_zoom - L)
RefHeightAt(L) == max_height \div Pow2(max_zoom - L)
RefTilesWideAt(i) == RefCeil(RefWidthAt(i), tile_size)
RefTilesHighAt(i) == RefCeil(RefHeightAt(i), tile_size)
RECURSIVE RefTilesBelow(_)
RefTilesBelow(L) ==
    IF L <= 0 THEN 0
    ELSE RefTilesBelow(L - 1) + RefTilesWideAt(L - 1) * RefTilesHighAt(L - 1)
RefTileIndex(L, col, row) == col + row * RefTilesWideAt(L) + RefTilesBelow(L)

\* The main thread is in or past the pipeline of the current image.
InPipeline == pc \in {"jplarge", "process_image_finally"}
\* process_image has ended for the current image.
ImageEnded == pc \in {"next_image", "done"} /\ outcome # "none"
\* process_image has ended in a way only the pipeline ends in.
PipelineEnded ==
    ImageEnded /\ outcome \in {"ok", "URLError", "OSError", "KeyboardInterrupt"}
\* get_zoom_levels has returned, self.levels is set.
LevelsReturned ==
    \/ pc \in {"select_zoom", "untile_image"}
    \/ InPipeline
    \/ PipelineEnded
    \/ ImageEnded /\ outcome = "ZoomLevelError"
\* get_properties has returned, the zoom level is resolved.
LevelSelected == pc = "untile_image" \/ InPipeline \/ PipelineEnded
\* process_image has returned normally after a run of the pipeline.
RunCompleted == ImageEnded /\ outcome = "ok"

IsTileOp(op) == op.kind \in {"column_crop", "column_drop"}
IsPromotion(op) == op.kind \in {"final_crop", "final_drop"}
TileOps == SelectSeq(ops, IsTileOp)
Promotions == SelectSeq(ops, IsPromotion)
\* The index (from 1) of tile (col, row) in the column-major enumeration.
IndexOf(col, row) == col * y_tiles + row + 1
\* Where tile (col, row) belongs on the canvas.
Placed(col, row) == <<col, row, col * tile_size, row * tile_size>>

\* C1: the download iterator hands the joining loop the results in the order
\* of the tile positions, each exactly once (the k-th result emitted is that of
\* position k, whatever order the fetches ended in), a result is emitted only
\* once its fetch has ended, every jpegtran invocation on a tile is on a tile
\* already emitted and fetched, and a run that completes has emitted one result
\* per tile position.
C1_OrderPreserved ==
    /\ \A k \in 1..Len(emitted) : emitted[k] = k /\ Resolved(k)
    /\ \A k \in 1..Len(ops) :
          IsTileOp(ops[k]) =>
              /\ IndexOf(ops[k].col, ops[k].row) <= Len(emitted)
              /\ fetch[IndexOf(ops[k].col, ops[k].row)] \in {"ok", "local"}
    /\ RunCompleted => Len(emitted) = num_tiles

\* C1 witness: results have been emitted, the next position's fetch is still
\* running and the fetch of a later position has already ended.
C1_Witness ==
    /\ pc = "jplarge"
    /\ Len(emitted) >= 1
    /\ Len(emitted) + 1 \in DOMAIN fetch
    /\ fetch[Len(emitted) + 1] = "running"
    /\ \E j \in DOMAIN fetch : j > Len(emitted) + 1 /\ Resolved(j)

\* The compositor is the one the program requires: jpegtran with -drop.
Usable == jpegtran = "ok"
\* C2: a run of a positive geometry that completes with no tile missing has
\* joined every tile exactly once, in column-major order, has promoted every
\* column 0..x_tiles-1 exactly once in increasing order (column 0 by a crop to
\* width x height, column c > 0 by a drop at horizontal offset c * tile_size),
\* and has written an output of exactly width x height holding every tile at
\* its own place.
C2_CompleteRun ==
    (RunCompleted /\ Positive /\ Usable /\ CountFetch("http_error") = 0) =>
        /\ num_joined = num_tiles
        /\ Len(TileOps) = num_tiles
        /\ \A i \in 1..Len(TileOps) :
              <<TileOps[i].col, TileOps[i].row>> = TilePosition(i)
        /\ Len(Promotions) = x_tiles
        /\ \A k \in 1..Len(Promotions) :
              /\ Promotions[k].col = k - 1
              /\ IF k = 1
                 THEN /\ Promotions[k].kind = "final_crop"
                      /\ Promotions[k].w = width /\ Promotions[k].h = height
                 ELSE /\ Promotions[k].kind = "final_drop"
                      /\ Promotions[k].x = (k - 1) * tile_size
                      /\ Promotions[k].y = 0
        /\ output.w = width /\ output.h = height
        /\ output.tiles =
              {Placed(c, r) : c \in 0..(x_tiles - 1), r \in 0..(y_tiles - 1)}

\* C2 witness: a completed run without a missing tile over a grid of several
\* columns and several rows.
C2_Witness ==
    /\ RunCompleted /\ Positive /\ Usable /\ CountFetch("http_error") = 0
    /\ x_tiles >= 2 /\ y_tiles >= 2

\* C3: a run in which every fetch ended with a tile or with Missing (and that
\* no interrupt cut short) completes without a fatal error and reports as
\* missing exactly the number of Missing results.
C3_MissingCountReported ==
    (/\ ImageEnded /\ Positive /\ Usable /\ fetch # <<>>
     /\ \A i \in DOMAIN fetch : fetch[i] \in {"ok", "http_error"}
     /\ raised # "KeyboardInterrupt") =>
        /\ outcome = "ok"
        /\ num_missing = CountFetch("http_error")

\* C4: in a completed run with a Missing tile, every other tile is on the
\* output at the place its own (col, row) gives, and a column image is only
\* ever created from the row-0 tile of its column.
C4_GapLeavesOthersInPlace ==
    (RunCompleted /\ Positive /\ Usable /\ CountFetch("http_error") > 0) =>
        /\ output.tiles =
              {Placed(TilePosition(i)[1], TilePosition(i)[2]) :
                  i \in {j \in DOMAIN fetch : fetch[j] = "ok"}}
        /\ \A k \in 1..Len(ops) : ops[k].kind = "column_crop" => ops[k].row = 0

\* C5: the index every tile's URL is built with is
\* col + row * tilesWideAt(L) + sum over i < L of tilesWideAt(i) * tilesHighAt(i)
\* for the selected level L, with the per-level sizes derived from WIDTH and
\* HEIGHT, and the tile group is floor(index / tile_size).
C5_TileIndex ==
    Positive =>
        \A t \in requested :
            /\ t[3] = RefTileIndex(zoom_level, t[1], t[2])
            /\ t[4] = t[3] \div tile_size

\* The index get_tile_url builds the URL of tile (x, y) with when level L is
\* the selected one: get_tile_index with self.width and self.height as
\* get_properties sets them for L.
UsedIndex(L, x, y) ==
    TileIndexWith(SizeAtLevel(max_width, max_zoom, L),
                  SizeAtLevel(max_height, max_zoom, L), L, x, y)

\* C6: the tile index is strictly increasing across levels (every index of a
\* tile of level L + 1 exceeds every index of a tile of level L) and, within a
\* level, strictly increasing in the row-major position row * tilesWideAt + col.
C6_IndexMonotone ==
    (LevelsReturned /\ Positive) =>
        /\ \A L \in 0..(max_zoom - 1) :
              \A c1 \in 0..(RefTilesWideAt(L) - 1), r1 \in 0..(RefTilesHighAt(L) - 1),
                 c2 \in 0..(RefTilesWideAt(L + 1) - 1),
                 r2 \in 0..(RefTilesHighAt(L + 1) - 1) :
                    UsedIndex(L + 1, c2, r2) > UsedIndex(L, c1, r1)
        /\ \A L \in 0..max_zoom :
              \A c1 \in 0..(RefTilesWideAt(L) - 1), r1 \in 0..(RefTilesHighAt(L) - 1),
                 c2 \in 0..(RefTilesWideAt(L) - 1), r2 \in 0..(RefTilesHighAt(L) - 1) :
                    (r1 * RefTilesWideAt(L) + c1 < r2 * RefTilesWideAt(L) + c2)
                        => UsedIndex(L, c1, r1) < UsedIndex(L, c2, r2)

\* C7: for positive WIDTH, HEIGHT and TILESIZE the levels get_zoom_levels
\* returns start at (1, 1) at index 0, end at
\* (ceil(WIDTH / TILESIZE), ceil(HEIGHT / TILESIZE)) at index max_zoom, and
\* are non-decreasing in both tile counts from each level to the next.
C7_Levels ==
    (LevelsReturned /\ Positive) =>
        /\ Len(levels) = max_zoom + 1
        /\ levels[1] = <<1, 1>>
        /\ levels[max_zoom + 1] =
              <<RefCeil(max_width, tile_size), RefCeil(max_height, tile_size)>>
        /\ \A i \in 1..max_zoom :
              /\ levels[i][1] <= levels[i + 1][1]
              /\ levels[i][2] <= levels[i + 1][2]

\* C7 witness: levels returned for a positive geometry of several levels whose
\* width is no multiple of the tile size and differs from its height.
C7_Witness ==
    /\ LevelsReturned /\ Positive
    /\ max_zoom >= 1
    /\ max_width % tile_size # 0
    /\ max_width # max_height

\* C8: for positive WIDTH, HEIGHT and TILESIZE the halving loop terminates.
\* The loop is deterministic and whether it continues depends on
\* (loc_width, loc_height) alone, so it terminates exactly when no iteration
\* that continues leaves (loc_width, loc_height) as it found them.
C8_HalvingTerminates ==
    [][(pc = "get_zoom_levels" /\ pc' = "get_zoom_levels" /\ Positive)
          => <<loc_width', loc_height'>> # <<loc_width, loc_height>>]_vars

C10_InvalidGeometry ==
    ((LevelsReturned \/ (ImageEnded /\ outcome = "ZeroDivisionError"))
        /\ ~Positive) => outcome = "InvalidGeometry"

\* The joining loop takes the result of position i from the iterator.
Emits(i) == pc = "jplarge" /\ emitted' = Append(emitted, i)

\* C11: a fetch that ends in HTTPError (not found) gives the result Missing:
\* when the joining loop takes that result no error is raised and nothing is
\* composited, the loop goes on and no other fetch is touched; and a run that
\* ends normally after a Missing result has nevertheless taken the result of
\* every position, each of them fetched to its end.
C11_NotFoundIsMissing ==
    /\ [](\A i \in DOMAIN fetch :
             (fetch[i] = "http_error" /\ ImageEnded /\ raised = "none") =>
                 /\ Len(emitted) = num_tiles
                 /\ \A j \in DOMAIN fetch : fetch[j] \in {"ok", "http_error"})
    /\ [][\A i \in DOMAIN fetch :
             (Emits(i) /\ fetch[i] = "http_error") =>
                 /\ pc' = "jplarge" /\ raised' = "none"
                 /\ Yielded(i) = NonePosition
                 /\ fetch' = fetch /\ ops' = ops /\ num_joined' = num_joined]_vars
\* C11 witness: the loop has taken a Missing result and, after it, the
\* downloaded tile of a later position.
C11_Witness ==
    /\ pc = "jplarge" /\ Positive
    /\ \E k \in 1..Len(emitted) :
          /\ fetch[emitted[k]] = "http_error"
          /\ k < Len(emitted)
          /\ fetch[Len(emitted)] = "ok"

\* C12: a fetch that ends in an error other than not-found once open_url has
\* used up its retries gives the result Missing and the run goes on: when the
\* joining loop takes that result, no error is raised and the image is not
\* aborted.
C12_OtherErrorIsMissing ==
    [][\A i \in DOMAIN fetch :
          (Emits(i) /\ fetch[i] = "url_error") =>
              pc' = "jplarge" /\ raised' = "none"]_vars

\* C13: when jpegtran is absent, not executable or lacks -drop, the
\* constructor fails with JpegtranException before process_image is called
\* for any image, for one image and for a list alike.
C13_JpegtranRequired ==
    jpegtran \in {"absent", "not_executable", "no_drop"} =>
        /\ image = 0
        /\ pc = "done" => escaped = "JpegtranException"

\* C14: the four temporary files exist while the main thread is in the
\* joining loop and none of them exists once it has left jplarge, whichever
\* way it left: normally, by an error of the iterator or of a jpegtran call,
\* or by KeyboardInterrupt.
C14_ScratchFilesDeleted ==
    /\ pc = "jplarge" => scratch = ScratchFiles
    /\ pc # "jplarge" => scratch = {}
\* C14 witness: jplarge has been left by a KeyboardInterrupt that arrived
\* while a jpegtran subprocess was running.
C14_Witness ==
    /\ pc = "process_image_finally" /\ Positive
    /\ raised = "KeyboardInterrupt"
    /\ events = <<"kill", "unlink">>

\* C15: once KeyboardInterrupt has been received in the joining loop, no
\* fetch of a position not yet started is started.
C15_NoFetchAfterInterrupt ==
    [][raised = "KeyboardInterrupt" =>
          \A i \in DOMAIN fetch \cap DOMAIN fetch' :
              ~(fetch[i] = "queued" /\ fetch'[i] = "running")]_vars

\* C16: after a KeyboardInterrupt that arrived while a jpegtran subprocess
\* was running, process_image ends with exactly these cleanup calls, in this
\* order: the subprocess is killed, the temporary images are deleted and
\* (without -s / -x) the tile directory is removed; the KeyboardInterrupt
\* then leaves the constructor, for a list of images too, and no further
\* image is processed.
C16_InterruptCleanupOrder ==
    (raised = "KeyboardInterrupt" /\ Len(events) > 0 /\ events[1] = "kill"
     /\ pc # "process_image_finally" /\ Positive) =>
        /\ events = IF store THEN <<"kill", "unlink">>
                    ELSE <<"kill", "unlink", "rmtree">>
        /\ pc = "done"
        /\ escaped = "KeyboardInterrupt"

\* C17: when process_image has ended for an image for which a tile directory
\* was set up, by success, error or KeyboardInterrupt, that directory has
\* been removed if neither -s nor -x was given and still exists otherwise.
C17_TileDirectoryRemoved ==
    (ImageEnded /\ image >= 1 /\ tile_dir = image /\ dirs[image] # "none"
     /\ Positive) =>
        dirs[image] = (IF store THEN "exists" ELSE "removed")

C19_ZoomLevelPerImage ==
    (n_images > 1 /\ image >= 1) =>
        /\ pc \in {"process_image", "get_zoom_levels", "select_zoom"}
              => zoom_level = args_zoom
        /\ LevelSelected
              => zoom_level = ResolveZoom(args_zoom, max_zoom).level
\* C19 witness: the zoom level of the second image is resolved after the
\* first image had a negative request resolved to a level.
C19_Witness ==
    /\ image = 2 /\ LevelSelected /\ Positive
    /\ results[1] = "ok"
    /\ args_zoom < 0

\* C20: the results the iterator hands the joining loop are the tile
\* positions (col, row), 0 <= col < x_tiles, 0 <= row < y_tiles, each exactly
\* once in column-major order, with and without -x; a run that completes has
\* handed over all of them; with -x no tile is fetched.
C20_ColumnMajorPositions ==
    /\ \A k \in 1..Len(emitted) :
          Positive =>
              Yielded(emitted[k]) = <<(k - 1) \div y_tiles, (k - 1) % y_tiles>>
    /\ RunCompleted => Len(emitted) = x_tiles * y_tiles
    /\ no_download =>
          (requested = {} /\ \A i \in DOMAIN fetch : fetch[i] = "local")

\* The temporary images an invocation reads.
SlotsRead(op) == {op.src, op.base} \cap ScratchFiles
\* The index of the last invocation before the k-th that Test holds of, 0 if
\* there is none.
LastBefore(k, Test(_)) ==
    CHOOSE j \in 0..(k - 1) :
        /\ j = 0 \/ Test(ops[j])
        /\ \A m \in (j + 1)..(k - 1) : ~Test(ops[m])

\* C21: no jpegtran invocation writes a temporary image it reads; a column
\* drop reads the column image the column step just before it wrote and
\* writes the other one; a promotion of a column > 0 reads the final image
\* the promotion just before it wrote and writes the other one; and every
\* temporary image an invocation reads has been written by an earlier
\* invocation for this image.
C21_DoubleBuffer ==
    (Positive /\ Usable) =>
        \A k \in 1..Len(ops) :
            /\ ops[k].dst \notin SlotsRead(ops[k])
            /\ ops[k].kind = "column_drop" =>
                  LET j == LastBefore(k, IsTileOp)
                  IN  /\ j > 0
                      /\ ops[k].base = ops[j].dst
                      /\ ops[k].dst \in {"tmp0", "tmp1"} \ {ops[j].dst}
            /\ ops[k].kind = "final_drop" =>
                  LET j == LastBefore(k, IsPromotion)
                  IN  /\ j > 0
                      /\ ops[k].base = ops[j].dst
                      /\ ops[k].dst \in {"final0", "final1"} \ {ops[j].dst}
            /\ \A slot \in SlotsRead(ops[k]) :
                  \E j \in 1..(k - 1) : ops[j].dst = slot

\* C22: in every run that reaches the optimize pass, with or without missing
\* tiles, that pass comes after the promotion of the last column
\* (x_tiles - 1), which is the last promotion of the run, and reads the final
\* image that promotion wrote.
C22_OptimizeAfterLastColumn ==
    (Positive /\ Usable) =>
        \A k \in 1..Len(ops) :
            ops[k].kind = "optimize" =>
                LET j == LastBefore(k, IsPromotion)
                IN  /\ j > 0
                    /\ ops[j].col = x_tiles - 1
                    /\ ops[k].src = ops[j].dst

\* The widths of columns 0..n-1 added up.
RECURSIVE SumColumnWidths(_)
SumColumnWidths(n) ==
    IF n <= 0 THEN 0 ELSE SumColumnWidths(n - 1) + ColumnWidth(n - 1)

\* C23: for every positive geometry and selected level the last column is
\* between 1 and tile_size pixels wide, the column widths add up to the
\* width of the level, and every column image is cropped to tile_size x
\* height(level), the last column's to
\* (width(level) - (x_tiles - 1) * tile_size) x height(level).
C23_ColumnCrop ==
    (Positive /\ LevelSelected) =>
        /\ ColumnWidth(x_tiles - 1) \in 1..tile_size
        /\ SumColumnWidths(x_tiles) = RefWidthAt(zoom_level)
        /\ \A k \in 1..Len(ops) :
              ops[k].kind = "column_crop" =>
                  /\ ops[k].h = RefHeightAt(zoom_level)
                  /\ ops[k].w =
                        IF ops[k].col = RefTilesWideAt(zoom_level) - 1
                        THEN RefWidthAt(zoom_level)
                                 - (RefTilesWideAt(zoom_level) - 1) * tile_size
                        ELSE tile_size

\* A narrower last column has been cropped after a full-width one.
C23_Witness ==
    /\ Positive /\ LevelSelected
    /\ \E j, k \in 1..Len(ops) :
          /\ ops[j].kind = "column_crop" /\ ops[j].col = 0
          /\ ops[j].w = tile_size
          /\ ops[k].kind = "column_crop" /\ ops[k].col = x_tiles - 1
          /\ ops[k].w < tile_size

\* open_url has returned or raised to its caller.
OpenUrlEnded == pc = "opened"
\* The call ended by giving up: the last exception was raised to the caller.
GaveUp == OpenUrlEnded /\ opened # "ok"
\* The k-th sleep lasts 2^(k-1) seconds: 1, 2, 4, ...
BackoffSchedule == \A k \in 1..Len(sleeps) : sleeps[k] = Pow2(k - 1)
\* The recursion is bounded: retry never goes below 0 and drops by one with
\* every sleep, and the call is never stuck before it has ended.
RecursionBounded ==
    /\ retry \in 0..DefaultRetry
    /\ retry + Len(sleeps) = DefaultRetry
    /\ OpenUrlEnded \/ ENABLED OpenUrlNext
\* At most `most` requests are made, and open_url gives up exactly when that
\* many have failed.
AttemptsAtMost(most) ==
    /\ Len(answers) <= most
    /\ GaveUp => Len(answers) = most
    /\ (OpenUrlEnded /\ Len(answers) = most /\ opened # "ok") => GaveUp
    /\ Len(sleeps) <= Len(answers)

\* C24: a fetch that fails every time is requested at most 5 times in
\* total, the k-th retry comes after 2^(k-1) seconds, then open_url gives up;
\* the recursion always ends.
C24_FiveAttempts ==
    /\ AttemptsAtMost(5)
    /\ BackoffSchedule
    /\ RecursionBounded

\* C24, amended: a fetch that fails every time is requested at most 6 times
\* in total (the first request and 5 retries), the k-th retry comes after
\* 2^(k-1) seconds, then open_url gives up; the recursion always ends.
C24_SixAttempts ==
    /\ AttemptsAtMost(DefaultRetry + 1)
    /\ BackoffSchedule
    /\ RecursionBounded

\* open_url has given up after six failed requests and five sleeps.
C24_Witness ==
    /\ GaveUp
    /\ \A k \in 1..Len(answers) : answers[k] = "URLError"
    /\ Len(answers) = 6
    /\ sleeps = <<1, 2, 4, 8, 16>>

\* C26: an HTTP error status ends the fetch at once: the request that got
\* it is the last one, open_url does not sleep after it, and what download
\* then sees is the HTTPError it turns into a missing tile; only failures
\* other than HTTP errors are retried.
C26_HTTPErrorNotRetried ==
    \A k \in 1..Len(answers) :
        answers[k] = "HTTPError" =>
            /\ k = Len(answers)
            /\ pc # "sleep"
            /\ OpenUrlEnded => DownloadResult(opened) = "http_error"

\* Every fetch of the current image has ended with a tile or as missing.
AllFetched ==
    /\ fetch # <<>>
    /\ \A i \in DOMAIN fetch : fetch[i] \in {"ok", "http_error", "local"}

\* C25: however the download threads interleave, once every fetch has ended
\* with a tile or as missing the downloaded counter equals the number of
\* tile positions (no increment is lost); and the joined counter moves only
\* in the joining loop, by one for every tile joined.
C25_CountersExact ==
    Positive =>
        /\ AllFetched => num_downloaded = num_tiles
        /\ num_joined = Cardinality({k \in 1..Len(ops) : IsTileOp(ops[k])})

\* C27: in a list of images without -s, when an image ends before its tile
\* directory is created (ImageProperties.xml is not found, or the zoom
\* level is invalid) and the directories of the earlier images are gone, no
\* rmtree is attempted, so none on an earlier image's deleted directory, and
\* the image ends with the error that was raised: rmtree is only ever
\* attempted on the directory created for the current image.
C27_NoStaleRemoval ==
    [][(/\ n_images > 1 /\ ~store
        /\ \A i \in 1..n_images : dirs[i] # "exists"
        /\ pc \in {"process_image", "select_zoom"}
        /\ pc' \in {"next_image", "done"})
       => /\ events' = events
          /\ dirs' = dirs
          /\ outcome' = (IF pc = "select_zoom" THEN "ZoomLevelError"
                         ELSE "FileNotFoundError")]_vars

====
